---- MODULE Spec2Model ----
(***************************************************************************)
(* A model of clidup's database-handler layer: the filename codec          *)
(* (cli/main.py, the handlers' get_default_backup_name), the handler       *)
(* factory (databases/factory.py), the MySQL, MongoDB and SQLite handlers  *)
(* (databases/*.py), and the backup and restore commands (cli/main.py).    *)
(*                                                                         *)
(* Text is modelled character by character: a Python str is a sequence of  *)
(* one-character strings, so that str.replace, the f-strings and the       *)
(* regular expression are computed as Python computes them.                *)
(***************************************************************************)
EXTENDS Integers, Sequences, FiniteSets, TLC

VARIABLES
    \* ---- filename codec ----
    dbType,      \* the --db tag of the run
    dbName,      \* the logical database name handed to the handler
    now,         \* datetime.now(), to the second
    cfgDbPath,   \* sqlite config 'db_path' (file name part)
    cfgDatabase, \* mongodb config 'database'
    filename,    \* the backup file name in hand
    origin,      \* "none" | "encoded" (a handler named the file) | "user" (--file)
    decoded,     \* result of extract_db_name_from_filename(filename)
    step         \* "input" | "named" | "decoded"

codecVars ==
    <<dbType, dbName, now, cfgDbPath, cfgDatabase, filename, origin, decoded, step>>

VARIABLES
    \* ---- handler factory ----
    fTag,        \* db_type passed to DatabaseFactory.get_handler
    fConfig,     \* config passed to DatabaseFactory.get_handler
    fResult      \* what the call returned or raised (kind "pending" before the call)

factoryVars == <<fTag, fConfig, fResult>>

VARIABLES
    \* ---- a handler in use ----
    handler,     \* the handler object the factory built
    onPath,      \* the executables shutil.which resolves
    environ,     \* os.environ of the process
    fs,          \* the file system: path -> content, or NoFile
    access,      \* what os reports of db_path: its parent exists, it is readable
    fsPre,       \* fs as it was when the last handler call started
    last         \* the last handler call: its arguments and its outcome

handlerVars == <<handler, onPath, environ, fs, access, fsPre, last>>

VARIABLES
    \* ---- one run of the command line ----
    cliArgv,     \* the command and its options
    cliWorld,    \* which collaborator of the command raises, and what
    cliRun       \* the finished run: exit code, output, calls made ("pending" before)

cliVars == <<cliArgv, cliWorld, cliRun>>

vars == <<codecVars, factoryVars, handlerVars, cliVars>>

-----------------------------------------------------------------------------
(* Text constants                                                          *)

S_postgres == <<"p","o","s","t","g","r","e","s">>
S_mysql    == <<"m","y","s","q","l">>
S_sqlite   == <<"s","q","l","i","t","e">>
S_mongodb  == <<"m","o","n","g","o","d","b">>
S_mongo    == <<"m","o","n","g","o">>
S_all      == <<"a","l","l">>
S_full     == <<"_","f","u","l","l","_">>
S_sql      == <<".","s","q","l">>
S_tar      == <<".","t","a","r">>
S_targz    == <<".","t","a","r",".","g","z">>
S_db       == <<".","d","b">>
S_archive  == <<".","a","r","c","h","i","v","e">>
S_pgprefix == <<"p","o","s","t","g","r","e","s","_">>
S_random_file == <<"r","a","n","d","o","m","_","f","i","l","e">>
S_my_production_db ==
    <<"m","y","_","p","r","o","d","u","c","t","i","o","n","_","d","b">>
S_mydb     == <<"m","y","d","b">>
S_data_db  == <<"d","a","t","a",".","d","b">>
S_test_db  == <<"t","e","s","t",".","d","b">>

\* The tags of DatabaseFactory._handlers
DbTags == {"mysql", "postgres", "sqlite", "mongodb"}

Digits == {"0","1","2","3","4","5","6","7","8","9"}

DigitChar(d) ==
    CASE d = 0 -> "0" [] d = 1 -> "1" [] d = 2 -> "2" [] d = 3 -> "3"
      [] d = 4 -> "4" [] d = 5 -> "5" [] d = 6 -> "6" [] d = 7 -> "7"
      [] d = 8 -> "8" [] d = 9 -> "9"

\* The result of a function returning Optional[str].
None == [some |-> FALSE, val |-> <<>>]
Some(s) == [some |-> TRUE, val |-> s]

\* The codec's variables while another component is exercised
CodecIdle ==
    /\ dbType = "postgres"
    /\ dbName = <<>>
    /\ now = [Y |-> 2026, M |-> 1, D |-> 7, h |-> 23, m |-> 45, s |-> 12]
    /\ cfgDbPath = S_data_db
    /\ cfgDatabase = <<>>
    /\ filename = <<>>
    /\ origin = "none"
    /\ decoded = None
    /\ step = "idle"

-----------------------------------------------------------------------------
(* str helpers                                                             *)

\* s[i:i+len(lit)] == lit
LitAt(s, i, lit) ==
    /\ i >= 1
    /\ i + Len(lit) - 1 <= Len(s)
    /\ \A k \in 1..Len(lit) : s[i + k - 1] = lit[k]

\* `lit in s`
Contains(s, lit) == \E i \in 1..(Len(s) + 1) : LitAt(s, i, lit)

\* s.endswith(lit)
EndsWith(s, lit) == Len(lit) <= Len(s) /\ LitAt(s, Len(s) - Len(lit) + 1, lit)

\* s[i..j] (1-based, inclusive; empty when j < i)
Slice(s, i, j) == [k \in 1..(j - i + 1) |-> s[i + k - 1]]

\* str.replace(pat, ''): every non-overlapping occurrence, scanning left to right
RECURSIVE ReplaceFrom(_, _, _)
ReplaceFrom(s, i, pat) ==
    IF i > Len(s) THEN <<>>
    ELSE IF LitAt(s, i, pat) THEN ReplaceFrom(s, i + Len(pat), pat)
    ELSE <<s[i]>> \o ReplaceFrom(s, i + 1, pat)

Replace(s, pat) == ReplaceFrom(s, 1, pat)

\* strftime zero-padded fields: %m %d %H %M %S (two digits), %Y (four digits)
Pad2(n) == <<DigitChar((n \div 10) % 10), DigitChar(n % 10)>>
Pad4(n) == <<DigitChar((n \div 1000) % 10), DigitChar((n \div 100) % 10),
             DigitChar((n \div 10) % 10), DigitChar(n % 10)>>

\* datetime.strftime("%Y-%m-%d_%H-%M-%S")
Strftime(t) ==
    Pad4(t.Y) \o <<"-">> \o Pad2(t.M) \o <<"-">> \o Pad2(t.D) \o <<"_">>
      \o Pad2(t.h) \o <<"-">> \o Pad2(t.m) \o <<"-">> \o Pad2(t.s)

\* datetime.strftime("%Y-%m-%d_%H-%M"), the minute-precision stamp the decoder
\* also accepts
StrftimeMinutes(t) ==
    Pad4(t.Y) \o <<"-">> \o Pad2(t.M) \o <<"-">> \o Pad2(t.D) \o <<"_">>
      \o Pad2(t.h) \o <<"-">> \o Pad2(t.m)

\* pathlib.PurePath.stem of a bare file name: the name without its last suffix
LastDot(s) == IF \E i \in 1..Len(s) : s[i] = "."
              THEN CHOOSE i \in 1..Len(s) :
                     s[i] = "." /\ \A j \in (i + 1)..Len(s) : s[j] # "."
              ELSE 0
Stem(s) == LET i == LastDot(s)
           IN  IF 1 < i /\ i < Len(s) THEN Slice(s, 1, i - 1) ELSE s

-----------------------------------------------------------------------------
(* The regular expression of extract_db_name_from_filename                 *)

IsDigitsAt(s, i, n) ==
    /\ i + n - 1 <= Len(s)
    /\ \A k \in 0..(n - 1) : s[i + k] \in Digits

\* '$' without re.MULTILINE: the end of the string, or just before a final newline
AtEnd(s, i) == i = Len(s) + 1 \/ (i = Len(s) /\ s[i] = "\n")

\* _full_\d{4}-\d{2}-\d{2}_\d{2}-\d{2}  matched at position i
StampAt(s, i) ==
    /\ LitAt(s, i, S_full)
    /\ IsDigitsAt(s, i + 6, 4)  /\ LitAt(s, i + 10, <<"-">>)
    /\ IsDigitsAt(s, i + 11, 2) /\ LitAt(s, i + 13, <<"-">>)
    /\ IsDigitsAt(s, i + 14, 2) /\ LitAt(s, i + 16, <<"_">>)
    /\ IsDigitsAt(s, i + 17, 2) /\ LitAt(s, i + 19, <<"-">>)
    /\ IsDigitsAt(s, i + 20, 2)

\* The same without the closing '$': the stamp may be followed by anything
TailMatches_unanchored(s, i) == StampAt(s, i)

\* _full_\d{4}-\d{2}-\d{2}_\d{2}-\d{2}(?:-\d{2})?$  matched at position i
TailMatches(s, i) ==
    /\ StampAt(s, i)
    /\ \/ LitAt(s, i + 22, <<"-">>) /\ IsDigitsAt(s, i + 23, 2) /\ AtEnd(s, i + 25)
       \/ AtEnd(s, i + 22)

\* ([^_]+) in place of (.+?): a capture that stops at the first underscore
CaptureOk_NoUnderscore(s, j) ==
    /\ j >= Len(S_pgprefix) + 2
    /\ \A k \in (Len(S_pgprefix) + 1)..(j - 1) : s[k] # "\n" /\ s[k] # "_"

\* (.+?) ending just before position j: at least one character, none a newline
CaptureOk(s, j) ==
    /\ j >= Len(S_pgprefix) + 2
    /\ \A k \in (Len(S_pgprefix) + 1)..(j - 1) : s[k] # "\n"

\* The positions at which the lazy group may end so that the rest matches.
SplitPoints(s) ==
    {j \in (Len(S_pgprefix) + 2)..(Len(s) + 1) : CaptureOk(s, j) /\ TailMatches(s, j)}

\* re.match(pattern, name) and match.group(1): the lazy group takes the
\* shortest capture for which the rest of the pattern matches.
ReMatchGroup1(s) ==
    IF LitAt(s, 1, S_pgprefix) /\ SplitPoints(s) # {}
    THEN LET j == CHOOSE x \in SplitPoints(s) : \A y \in SplitPoints(s) : x <= y
         IN  Some(Slice(s, Len(S_pgprefix) + 1, j - 1))
    ELSE None

\* name = filename.replace('.tar.gz', '').replace('.tar', '').replace('.sql', '')
StripExtensions(f) == Replace(Replace(Replace(f, S_targz), S_tar), S_sql)

extract_db_name_from_filename(f) == ReMatchGroup1(StripExtensions(f))

-----------------------------------------------------------------------------
(* get_default_backup_name of each handler                                 *)

\* PostgresHandler.get_default_backup_name (databases/postgres.py)
Postgres_get_default_backup_name(database, t) ==
    S_postgres \o <<"_">> \o database \o S_full \o Strftime(t) \o S_sql

MySQL_get_default_backup_name(database, t) ==
    S_mysql \o <<"_">> \o database \o S_full \o Strftime(t) \o S_sql

SQLite_get_default_backup_name(db_path, database, t) ==
    LET name == IF database # <<>> /\ database # S_sqlite
                THEN database ELSE Stem(db_path)
    IN  S_sqlite \o <<"_">> \o name \o S_full \o Strftime(t) \o S_db

MongoDB_get_default_backup_name(cfg_database, database, t) ==
    LET db_part == IF database # <<>> THEN database
                   ELSE IF cfg_database # <<>> THEN cfg_database ELSE S_all
    IN  S_mongo \o <<"_">> \o db_part \o <<"_">> \o Strftime(t) \o S_archive

\* The handler the factory tag selects, asked for its default backup name.
get_default_backup_name(tag, database, t, db_path, cfg_database) ==
    CASE tag = "postgres" -> Postgres_get_default_backup_name(database, t)
      [] tag = "mysql"    -> MySQL_get_default_backup_name(database, t)
      [] tag = "sqlite"   -> SQLite_get_default_backup_name(db_path, database, t)
      [] tag = "mongodb"  -> MongoDB_get_default_backup_name(cfg_database, database, t)


-----------------------------------------------------------------------------
(* Handler construction (the handlers' __init__) and the factory           *)

\* dict.get(key, default) on a configuration mapping
CfgGet(config, key, default) ==
    IF key \in DOMAIN config THEN config[key] ELSE default

\* PostgresHandler(config) (databases/postgres.py): binds the configuration
PostgresHandler(config) ==
    [cls |-> "PostgresHandler", config |-> config]

MySQLHandler(config) ==
    [cls |-> "MySQLHandler", config |-> config,
     host |-> CfgGet(config, "host", "localhost"),
     port |-> CfgGet(config, "port", "3306"),
     username |-> CfgGet(config, "username", "root"),
     password |-> CfgGet(config, "password", ""),
     default_database |-> CfgGet(config, "database", "")]

SQLiteHandler(config) ==
    [cls |-> "SQLiteHandler", config |-> config,
     db_path |-> CfgGet(config, "db_path", "data.db")]

MongoDBHandler(config) ==
    [cls |-> "MongoDBHandler", config |-> config,
     host |-> CfgGet(config, "host", "localhost"),
     port |-> CfgGet(config, "port", "27017"),
     username |-> CfgGet(config, "username", ""),
     password |-> CfgGet(config, "password", ""),
     database |-> CfgGet(config, "database", ""),
     auth_db |-> CfgGet(config, "auth_database", "admin")]

\* handler_cls(config)
Construct(cls, config) ==
    CASE cls = "PostgresHandler" -> PostgresHandler(config)
      [] cls = "MySQLHandler"    -> MySQLHandler(config)
      [] cls = "SQLiteHandler"   -> SQLiteHandler(config)
      [] cls = "MongoDBHandler"  -> MongoDBHandler(config)

\* A table that maps the 'mongodb' tag to the MySQL class (a copy-paste slip)
DatabaseFactory_handlers_slip ==
    [tag \in DbTags |->
        CASE tag = "postgres" -> "PostgresHandler"
          [] tag = "mysql"    -> "MySQLHandler"
          [] tag = "sqlite"   -> "SQLiteHandler"
          [] tag = "mongodb"  -> "MySQLHandler"]

\* DatabaseFactory._handlers
DatabaseFactory_handlers ==
    [tag \in DbTags |->
        CASE tag = "postgres" -> "PostgresHandler"
          [] tag = "mysql"    -> "MySQLHandler"
          [] tag = "sqlite"   -> "SQLiteHandler"
          [] tag = "mongodb"  -> "MongoDBHandler"]

\* list(cls._handlers.keys()): the keys in insertion order
DatabaseFactory_keys == <<"postgres", "mysql", "sqlite", "mongodb">>

\* DatabaseFactory.get_handler(db_type, config)
get_handler(db_type, config) ==
    IF db_type \in DOMAIN DatabaseFactory_handlers
    THEN [kind |-> "handler",
          handler |-> Construct(DatabaseFactory_handlers[db_type], config)]
    ELSE [kind |-> "raise", exc |-> "ValueError",
          msg |-> <<"Unsupported database type: ", db_type,
                    ". Supported types: ">> \o DatabaseFactory_keys]

\* Tags a caller may pass: the table's and some that are not in it
CallerTags == DbTags \cup {"invalid", "", "Postgres", "mongo"}

ConfigKeys == {"host", "username", "password", "database", "db_path"}

ConfigValue(key) ==
    CASE key = "host"     -> "db.example"
      [] key = "username" -> "admin"
      [] key = "password" -> "s3cret"
      [] key = "database" -> "test_db"
      [] key = "db_path"  -> "test.db"

\* Configuration mappings: any subset of the keys present
Configs == {[k \in ks |-> ConfigValue(k)] : ks \in SUBSET ConfigKeys}

FactoryIdle ==
    /\ fTag = "postgres"
    /\ fConfig = [k \in {} |-> ""]
    /\ fResult = [kind |-> "pending"]

\* A command-line run that has not been started
NoRun == [kind |-> "pending", exit |-> 0, stdout |-> <<>>, stderr |-> <<>>,
          calls |-> <<>>]

CliIdle ==
    /\ cliArgv = [cmd |-> "none"]
    /\ cliWorld = [fails |-> "none", exc |-> "", text |-> ""]
    /\ cliRun = NoRun


-----------------------------------------------------------------------------
(* Messages, processes and the outcome of a handler call                   *)
(*                                                                         *)
(* A message (an exception's text, a log line, a captured stderr) is the   *)
(* sequence of the fragments an f-string joins; a command line is a        *)
(* sequence of arguments, each a sequence of fragments.  `tok in text` is  *)
(* the occurrence of tok as one of the fragments.                          *)

Arg(x) == <<x>>

RECURSIVE Flatten(_)
Flatten(args) ==
    IF args = <<>> THEN <<>> ELSE Head(args) \o Flatten(Tail(args))

InText(tok, text) == \E i \in 1..Len(text) : text[i] = tok

Whitespace == {"\n", " "}

\* str.strip()
RECURSIVE LStrip(_)
LStrip(text) ==
    IF text # <<>> /\ Head(text) \in Whitespace THEN LStrip(Tail(text)) ELSE text

RECURSIVE RStrip(_)
RStrip(text) ==
    IF text # <<>> /\ text[Len(text)] \in Whitespace
    THEN RStrip(SubSeq(text, 1, Len(text) - 1)) ELSE text

Strip(text) == RStrip(LStrip(text))

\* str(CalledProcessError(returncode, cmd))
StrCalledProcessError(cmd, code) ==
    <<"Command '[">> \o Flatten(cmd) \o <<"]' returned non-zero exit status ", code, ".">>

\* str(TimeoutExpired(cmd, timeout))
StrTimeoutExpired(cmd, timeout) ==
    <<"Command '[">> \o Flatten(cmd) \o <<"]' timed out after ", timeout, " seconds">>

\* str(FileNotFoundError) for a missing file or executable
StrFileNotFound(what) ==
    <<"[Errno 2] No such file or directory: '", what, "'">>

NoFile == "absent"

\* subprocess.run(cmd, capture_output=True, text=True, timeout=t, check=True):
\* what the call returns or raises when the child behaves as `oc` says.
SubprocessRun(cmd, timeout, which, oc) ==
    IF cmd[1][1] \notin which
    THEN [kind |-> "raise", exc |-> "FileNotFoundError", started |-> FALSE,
          stdout |-> <<>>, stderr |-> <<>>, text |-> StrFileNotFound(cmd[1][1])]
    ELSE IF oc.kind = "timeout"
    THEN [kind |-> "raise", exc |-> "TimeoutExpired", started |-> TRUE,
          stdout |-> <<>>, stderr |-> <<>>, text |-> StrTimeoutExpired(cmd, timeout)]
    ELSE IF oc.code # "0"
    THEN [kind |-> "raise", exc |-> "CalledProcessError", started |-> TRUE,
          stdout |-> oc.stdout, stderr |-> oc.stderr,
          text |-> StrCalledProcessError(cmd, oc.code)]
    ELSE [kind |-> "completed", exc |-> "", started |-> TRUE,
          stdout |-> oc.stdout, stderr |-> oc.stderr, text |-> <<>>]

\* The record of one child process: what a process listing and the child see
Proc(cmd, env, stdin, timeout) ==
    [argv |-> cmd, env |-> env, stdin |-> stdin, timeout |-> timeout]

Started(r, proc) == IF r.started THEN <<proc>> ELSE <<>>

Log(level, msg) == [level |-> level, msg |-> msg]

\* The outcome of a handler call: it returned or raised, the child processes
\* it started, the log records it wrote, and the file system it leaves.
Returned(value, started, logs, files) ==
    [kind |-> "return", value |-> value, exc |-> "", msg |-> <<>>,
     started |-> started, logs |-> logs, fs |-> files]

Raised(exc, msg, started, logs, files) ==
    [kind |-> "raise", value |-> FALSE, exc |-> exc, msg |-> msg,
     started |-> started, logs |-> logs, fs |-> files]

-----------------------------------------------------------------------------
(* MySQLHandler                                                            *)

\* _get_env that returns the copy of os.environ and never sets MYSQL_PWD
MySQL_get_env_forgets(h, os_environ) == os_environ

\* _get_env: os.environ.copy(), plus MYSQL_PWD when a password is configured
MySQL_get_env(h, os_environ) ==
    IF h.password # ""
    THEN [k \in DOMAIN os_environ \cup {"MYSQL_PWD"} |->
             IF k = "MYSQL_PWD" THEN h.password ELSE os_environ[k]]
    ELSE os_environ

MySQL_validate_connection(h, which, os_environ, files, oc) ==
    LET cmd  == <<Arg("mysql"), Arg("-h"), Arg(h.host), Arg("-P"), Arg(h.port),
                  Arg("-u"), Arg(h.username), Arg("-e"), Arg("SELECT 1;")>>
        proc == Proc(cmd, MySQL_get_env(h, os_environ), "", "10")
        r    == SubprocessRun(cmd, "10", which, oc)
        log0 == <<Log("debug", <<"Testing connection to MySQL at ", h.host, ":", h.port>>)>>
    IN  CASE r.kind = "completed" ->
               Returned(TRUE, Started(r, proc),
                        log0 \o <<Log("debug", <<"MySQL connection test successful">>)>>,
                        files)
          [] r.exc = "TimeoutExpired" ->
               Raised("RuntimeError",
                      <<"Connection timeout to MySQL at ", h.host, ":", h.port,
                        ". Check that the server is running and network is accessible.">>,
                      Started(r, proc), log0, files)
          [] r.exc = "CalledProcessError" ->
               Raised("RuntimeError",
                      <<"Cannot connect to MySQL at ", h.host, ":", h.port,
                        ". Check credentials and server status. Error: ">>
                        \o (IF r.stderr # <<>> THEN Strip(r.stderr) ELSE r.text),
                      Started(r, proc), log0, files)
          [] OTHER ->
               Raised(r.exc, r.text, Started(r, proc), log0, files)

\* validate_tools that looks for the tools and leaves the connection untested
MySQL_validate_tools_no_probe(h, which, os_environ, files, oc) ==
    IF "mysqldump" \notin which \/ "mysql" \notin which
    THEN Raised("RuntimeError",
                <<IF "mysqldump" \notin which THEN "mysqldump" ELSE "mysql",
                  " not found. Please install MySQL client tools.\n">>,
                <<>>, <<>>, files)
    ELSE Returned(TRUE, <<>>,
                  <<Log("debug", <<"MySQL tools validated successfully">>)>>, files)

\* validate_tools that tests the connection before it looks for the tools
MySQL_validate_tools_probes_first(h, which, os_environ, files, oc) ==
    LET c == MySQL_validate_connection(h, which, os_environ, files, oc)
    IN  IF c.kind = "raise" /\ c.exc = "RuntimeError" THEN c
        ELSE IF "mysqldump" \notin which \/ "mysql" \notin which
        THEN Raised("RuntimeError",
                    <<IF "mysqldump" \notin which THEN "mysqldump" ELSE "mysql",
                      " not found. Please install MySQL client tools.\n">>,
                    c.started, c.logs, files)
        ELSE c

MySQL_validate_tools(h, which, os_environ, files, oc) ==
    IF "mysqldump" \notin which
    THEN Raised("RuntimeError",
                <<"mysqldump", " not found. Please install MySQL client tools.\n",
                  "Download from: https://dev.mysql.com/downloads/">>,
                <<>>, <<>>, files)
    ELSE IF "mysql" \notin which
    THEN Raised("RuntimeError",
                <<"mysql", " client not found. Please install MySQL client tools.\n",
                  "Download from: https://dev.mysql.com/downloads/">>,
                <<>>, <<>>, files)
    ELSE LET log0 == <<Log("debug", <<"MySQL tools validated successfully">>)>>
             c    == MySQL_validate_connection(h, which, os_environ, files, oc)
         IN  [c EXCEPT !.logs = log0 \o c.logs]

\* len(text.strip().split('\n')): the lines of the stripped text
RECURSIVE CountNewlines(_)
CountNewlines(text) ==
    IF text = <<>> THEN 0
    ELSE (IF Head(text) = "\n" THEN 1 ELSE 0) + CountNewlines(Tail(text))

SplitLinesLen(text) == CountNewlines(Strip(text)) + 1

\* _database_exists: True when the listing has a header and a row; a probe that
\* exits non-zero or times out counts as "exists"
MySQL_database_exists(h, database, which, os_environ, files, oc) ==
    LET cmd  == <<Arg("mysql"), Arg("-h"), Arg(h.host), Arg("-P"), Arg(h.port),
                  Arg("-u"), Arg(h.username), Arg("-e"),
                  <<"SHOW DATABASES LIKE '", database, "';">> >>
        proc == Proc(cmd, MySQL_get_env(h, os_environ), "", "10")
        r    == SubprocessRun(cmd, "10", which, oc)
    IN  CASE r.kind = "completed" ->
               Returned(SplitLinesLen(r.stdout) > 1, Started(r, proc), <<>>, files)
          [] r.exc \in {"CalledProcessError", "TimeoutExpired"} ->
               Returned(TRUE, Started(r, proc),
                        <<Log("warning", <<"Could not check if database '", database,
                                           "' exists">>)>>,
                        files)
          [] OTHER ->
               Raised(r.exc, r.text, Started(r, proc), <<>>, files)

\* What mysqldump / mongodump leave behind when they exit 0: the result file
DumpWritten(files, output_file) == [files EXCEPT ![output_file] = "dump"]

MySQL_backup(h, database, output_file, which, os_environ, files, oc) ==
    LET cmd  == <<Arg("mysqldump"), Arg("-h"), Arg(h.host), Arg("-P"), Arg(h.port),
                  Arg("-u"), Arg(h.username), Arg("--result-file"),
                  Arg(output_file), Arg(database)>>
        proc == Proc(cmd, MySQL_get_env(h, os_environ), "", "3600")
        r    == SubprocessRun(cmd, "3600", which, oc)
        log0 == <<Log("info", <<"Starting MySQL backup of database '", database, "'">>)>>
    IN  CASE r.kind = "completed" ->
               Returned(TRUE, Started(r, proc),
                        log0 \o <<Log("debug", <<"mysqldump completed successfully">>)>>,
                        DumpWritten(files, output_file))
          [] r.exc = "CalledProcessError" ->
               LET error_msg == <<"Backup failed: ">>
                                  \o (IF r.stderr # <<>> THEN r.stderr ELSE r.text)
               IN  Raised("RuntimeError", error_msg, Started(r, proc),
                          log0 \o <<Log("error", error_msg)>>, files)
          [] OTHER ->
               LET error_msg == <<"Unexpected error during backup: ">> \o r.text
               IN  Raised("RuntimeError", error_msg, Started(r, proc),
                          log0 \o <<Log("error", error_msg)>>, files)

MySQL_restore(h, database, input_file, which, os_environ, files, oc) ==
    LET cmd  == <<Arg("mysql"), Arg("-h"), Arg(h.host), Arg("-P"), Arg(h.port),
                  Arg("-u"), Arg(h.username), Arg(database)>>
        proc == Proc(cmd, MySQL_get_env(h, os_environ), input_file, "3600")
        r    == SubprocessRun(cmd, "3600", which, oc)
        log0 == <<Log("info", <<"Starting MySQL restore to database '", database, "'">>)>>
    IN  IF files[input_file] = NoFile
        THEN \* open(input_file, 'r') raises FileNotFoundError
             Raised("RuntimeError", <<"Backup file not found: ", input_file>>,
                    <<>>, log0, files)
        ELSE CASE r.kind = "completed" ->
               Returned(TRUE, Started(r, proc),
                        log0 \o <<Log("debug", <<"mysql restore completed successfully">>)>>,
                        files)
          [] r.exc = "FileNotFoundError" ->
               Raised("RuntimeError", <<"Backup file not found: ", input_file>>,
                      Started(r, proc), log0, files)
          [] r.exc = "CalledProcessError" ->
               LET base == <<"Restore failed: ">>
                             \o (IF r.stderr # <<>> THEN r.stderr ELSE r.text)
                   error_msg ==
                       IF InText("Unknown database", base)
                       THEN base \o <<"\nHint: Create the database first with: ",
                                      "CREATE DATABASE ", database, ";">>
                       ELSE base
               IN  Raised("RuntimeError", error_msg, Started(r, proc),
                          log0 \o <<Log("error", error_msg)>>, files)
          [] OTHER ->
               LET error_msg == <<"Unexpected error during restore: ">> \o r.text
               IN  Raised("RuntimeError", error_msg, Started(r, proc),
                          log0 \o <<Log("error", error_msg)>>, files)

-----------------------------------------------------------------------------
(* MongoDBHandler                                                          *)

MongoDB_build_base_cmd(h, tool) ==
    <<Arg(tool), Arg("--host"), Arg(h.host), Arg("--port"), Arg(h.port)>>
      \o (IF h.username # ""
          THEN <<Arg("--username"), Arg(h.username), Arg("--password"), Arg(h.password),
                 Arg("--authenticationDatabase"), Arg(h.auth_db)>>
          ELSE <<>>)

\* validate_connection that runs the probe and does not look at how it ended
MongoDB_validate_connection_unchecked(h, which, os_environ, files, oc) ==
    LET cmd  == MongoDB_build_base_cmd(h, "mongosh")
                  \o <<Arg("--eval"), Arg("db.runCommand({ ping: 1 })")>>
        r    == SubprocessRun(cmd, "10", which, oc)
    IN  Returned(TRUE, Started(r, Proc(cmd, os_environ, "", "10")), <<>>, files)

MongoDB_validate_connection(h, which, os_environ, files, oc) ==
    LET cmd  == MongoDB_build_base_cmd(h, "mongosh")
                  \o <<Arg("--eval"), Arg("db.runCommand({ ping: 1 })")>>
        proc == Proc(cmd, os_environ, "", "10")
        r    == SubprocessRun(cmd, "10", which, oc)
        log0 == <<Log("debug", <<"Testing connection to MongoDB at ", h.host, ":", h.port>>)>>
    IN  IF "mongosh" \in which
        THEN CASE r.kind = "completed" ->
                    Returned(TRUE, Started(r, proc),
                             log0 \o <<Log("debug",
                                 <<"MongoDB connection test successful via mongosh">>)>>,
                             files)
               [] r.exc = "TimeoutExpired" ->
                    Raised("RuntimeError",
                           <<"Connection timeout to MongoDB at ", h.host, ":", h.port>>,
                           Started(r, proc), log0, files)
               [] r.exc = "CalledProcessError" ->
                    Raised("RuntimeError",
                           <<"Cannot connect to MongoDB: ">>
                             \o (IF r.stderr # <<>> THEN r.stderr ELSE r.text),
                           Started(r, proc), log0, files)
               [] OTHER ->
                    Raised(r.exc, r.text, Started(r, proc), log0, files)
        ELSE Returned(TRUE, <<>>,
                      log0 \o <<Log("debug",
                          <<"mongosh not found, skipping explicit connection test ",
                            "(will be tested during backup)">>)>>,
                      files)

MongoDB_validate_tools(h, which, os_environ, files, oc) ==
    IF "mongodump" \notin which
    THEN Raised("RuntimeError",
                <<"mongodump", " not found. Please install MongoDB Database Tools.\n",
                  "Download from: https://www.mongodb.com/try/download/database-tools">>,
                <<>>, <<>>, files)
    ELSE IF "mongorestore" \notin which
    THEN Raised("RuntimeError",
                <<"mongorestore", " not found. Please install MongoDB Database Tools.\n",
                  "Download from: https://www.mongodb.com/try/download/database-tools">>,
                <<>>, <<>>, files)
    ELSE LET log0 == <<Log("debug", <<"MongoDB tools validated successfully">>)>>
             c    == MongoDB_validate_connection(h, which, os_environ, files, oc)
         IN  [c EXCEPT !.logs = log0 \o c.logs]

MongoDB_backup(h, database, output_file, which, os_environ, files, oc) ==
    LET target_db == IF database # "" THEN database ELSE h.database
        cmd  == MongoDB_build_base_cmd(h, "mongodump")
                  \o <<<<"--archive=", output_file>>, Arg("--gzip")>>
                  \o (IF target_db # "" THEN <<Arg("--db"), Arg(target_db)>> ELSE <<>>)
        proc == Proc(cmd, os_environ, "", "3600")
        r    == SubprocessRun(cmd, "3600", which, oc)
        log0 == <<Log("info", <<"Starting MongoDB backup for database '",
                                IF target_db # "" THEN target_db ELSE "ALL", "'">>)>>
    IN  CASE r.kind = "completed" ->
               Returned(TRUE, Started(r, proc),
                        log0 \o <<Log("debug", <<"mongodump completed successfully">>)>>,
                        DumpWritten(files, output_file))
          [] r.exc = "CalledProcessError" ->
               LET error_msg == <<"Backup failed: ">>
                                  \o (IF r.stderr # <<>> THEN r.stderr ELSE r.text)
               IN  Raised("RuntimeError", error_msg, Started(r, proc),
                          log0 \o <<Log("error", error_msg)>>, files)
          [] OTHER ->
               \* no other except clause: the exception leaves backup() as it is
               Raised(r.exc, r.text, Started(r, proc), log0, files)

\* restore that passes the target on to the tool, as backup does: --db <target>
MongoDB_restore_targets_db(h, database, input_file, which, os_environ, files, oc) ==
    LET target_db == IF database # "" THEN database ELSE h.database
        cmd  == MongoDB_build_base_cmd(h, "mongorestore")
                  \o <<<<"--archive=", input_file>>, Arg("--gzip")>>
                  \o (IF target_db # "" THEN <<Arg("--db"), Arg(target_db)>> ELSE <<>>)
        proc == Proc(cmd, os_environ, "", "3600")
        r    == SubprocessRun(cmd, "3600", which, oc)
        log0 == <<Log("info", <<"Starting MongoDB restore to database '",
                                IF target_db # "" THEN target_db ELSE "original", "'">>)>>
    IN  CASE r.kind = "completed" ->
               Returned(TRUE, Started(r, proc),
                        log0 \o <<Log("debug", <<"mongorestore completed successfully">>)>>,
                        files)
          [] r.exc = "CalledProcessError" ->
               LET error_msg == <<"Restore failed: ">>
                                  \o (IF r.stderr # <<>> THEN r.stderr ELSE r.text)
               IN  Raised("RuntimeError", error_msg, Started(r, proc),
                          log0 \o <<Log("error", error_msg)>>, files)
          [] OTHER ->
               Raised(r.exc, r.text, Started(r, proc), log0, files)

MongoDB_restore(h, database, input_file, which, os_environ, files, oc) ==
    LET target_db == IF database # "" THEN database ELSE h.database
        cmd  == MongoDB_build_base_cmd(h, "mongorestore")
                  \o <<<<"--archive=", input_file>>, Arg("--gzip")>>
        proc == Proc(cmd, os_environ, "", "3600")
        r    == SubprocessRun(cmd, "3600", which, oc)
        log0 == <<Log("info", <<"Starting MongoDB restore to database '",
                                IF target_db # "" THEN target_db ELSE "original", "'">>)>>
    IN  CASE r.kind = "completed" ->
               Returned(TRUE, Started(r, proc),
                        log0 \o <<Log("debug", <<"mongorestore completed successfully">>)>>,
                        files)
          [] r.exc = "CalledProcessError" ->
               LET error_msg == <<"Restore failed: ">>
                                  \o (IF r.stderr # <<>> THEN r.stderr ELSE r.text)
               IN  Raised("RuntimeError", error_msg, Started(r, proc),
                          log0 \o <<Log("error", error_msg)>>, files)
          [] OTHER ->
               Raised(r.exc, r.text, Started(r, proc), log0, files)

-----------------------------------------------------------------------------
(* SQLiteHandler                                                           *)

\* A copy that moves: the source is gone afterwards
copy2_moves(src, dst, files) ==
    IF files[src] = NoFile
    THEN [ok |-> FALSE, exc |-> "FileNotFoundError", text |-> StrFileNotFound(src),
          fs |-> files]
    ELSE IF src = dst
    THEN [ok |-> FALSE, exc |-> "SameFileError",
          text |-> <<"'", src, "' and '", dst, "' are the same file">>, fs |-> files]
    ELSE [ok |-> TRUE, exc |-> "", text |-> <<>>,
          fs |-> [files EXCEPT ![dst] = files[src], ![src] = NoFile]]

\* shutil.copy2(src, dst) on files the process may read and write: the
\* destination gets the source's content; a missing source and a copy onto
\* itself raise.
copy2(src, dst, files) ==
    IF files[src] = NoFile
    THEN [ok |-> FALSE, exc |-> "FileNotFoundError", text |-> StrFileNotFound(src),
          fs |-> files]
    ELSE IF src = dst
    THEN [ok |-> FALSE, exc |-> "SameFileError",
          text |-> <<"'", src, "' and '", dst, "' are the same file">>, fs |-> files]
    ELSE [ok |-> TRUE, exc |-> "", text |-> <<>>,
          fs |-> [files EXCEPT ![dst] = files[src]]]

SQLite_validate_tools(h, files) == Returned(TRUE, <<>>, <<>>, files)

\* validate_connection: acc.parent is db_path.parent.exists(), acc.readable is
\* os.access(db_path, os.R_OK)
SQLite_validate_connection(h, files, acc) ==
    IF ~acc.parent
    THEN \* the parent of a bare file name is '.'
         Raised("RuntimeError", <<"Directory ", ".", " does not exist">>,
                <<>>, <<>>, files)
    ELSE IF files[h.db_path] # NoFile /\ ~acc.readable
    THEN Raised("RuntimeError", <<"Database file ", h.db_path, " is not readable">>,
                <<>>, <<>>, files)
    ELSE Returned(TRUE, <<>>,
                  <<Log("debug", <<"SQLite database path validated: ", h.db_path>>)>>,
                  files)

SQLite_backup(h, database, output_file, files) ==
    LET log0 == <<Log("info", <<"Starting SQLite backup of '", h.db_path, "'">>)>>
        c    == copy2(h.db_path, output_file, files)
    IN  IF files[h.db_path] = NoFile
        THEN Raised("RuntimeError", <<"Database file ", h.db_path, " does not exist">>,
                    <<>>, log0, files)
        ELSE IF c.ok
        THEN Returned(TRUE, <<>>,
                      log0 \o <<Log("debug", <<"File copied successfully to ", output_file>>)>>,
                      c.fs)
        ELSE LET error_msg == <<"Unexpected error during backup: ">> \o c.text
             IN  Raised("RuntimeError", error_msg, <<>>,
                        log0 \o <<Log("error", error_msg)>>, c.fs)

\* restore() that first keeps the previous database as a snapshot beside it
SQLite_restore_snapshot(h, database, input_file, files) ==
    LET kept == IF files[h.db_path] # NoFile /\ files[input_file] # NoFile
                   /\ input_file # h.db_path
                THEN [files EXCEPT !["snapshot.db"] = files[h.db_path]] ELSE files
        c    == copy2(input_file, h.db_path, kept)
    IN  IF c.ok THEN Returned(TRUE, <<>>, <<>>, c.fs)
        ELSE Raised("RuntimeError", c.text, <<>>, <<>>, c.fs)

SQLite_restore(h, database, input_file, files) ==
    LET log0 == <<Log("info", <<"Starting SQLite restore to '", h.db_path, "'">>)>>
        c    == copy2(input_file, h.db_path, files)
    IN  IF c.ok
        THEN Returned(TRUE, <<>>,
                      log0 \o <<Log("debug",
                          <<"File restored successfully from ", input_file>>)>>,
                      c.fs)
        ELSE IF c.exc = "FileNotFoundError"
        THEN Raised("RuntimeError", <<"Backup file not found: ", input_file>>,
                    <<>>, log0, c.fs)
        ELSE LET error_msg == <<"Unexpected error during restore: ">> \o c.text
             IN  Raised("RuntimeError", error_msg, <<>>,
                        log0 \o <<Log("error", error_msg)>>, c.fs)

-----------------------------------------------------------------------------
(* The environment of a handler and the calls made on it                   *)

\* Paths a backup or restore may name; 'data.db' and 'test.db' are the SQLite
\* database paths a configuration gives, 'snapshot.db' is never asked for
Paths == {"data.db", "test.db", "backup.db", "snapshot.db"}
FileArgs == {"data.db", "test.db", "backup.db"}
Contents == {"c1", "c2"}

\* Logical database names passed to backup and restore; MySQL accepts any text
\* as a database name, the words of its own diagnostics included
DbArgs == {"", "mydb", "Unknown database"}

ToolsOf(cls) ==
    CASE cls = "MySQLHandler"   -> {"mysqldump", "mysql"}
      [] cls = "MongoDBHandler" -> {"mongodump", "mongorestore", "mongosh"}
      [] OTHER -> {}

\* How a child process may end: exit 0, a non-zero exit with or without text
\* on stderr, or no end within the timeout
Outcomes ==
    {[kind |-> "exit", code |-> "0", stdout |-> <<>>, stderr |-> <<>>],
     [kind |-> "exit", code |-> "1", stdout |-> <<>>, stderr |-> <<>>],
     [kind |-> "exit", code |-> "1", stdout |-> <<>>,
      stderr |-> <<"ERROR 1045 (28000): Access denied for user", "\n">>],
     [kind |-> "exit", code |-> "1", stdout |-> <<>>,
      stderr |-> <<"ERROR 1049 (42000): ", "Unknown database", " 'mydb'", "\n">>],
     [kind |-> "timeout", code |-> "", stdout |-> <<>>, stderr |-> <<>>]}

\* How the SHOW DATABASES probe may end: as above, or exit 0 with the listing
\* of one database (exit 0 with nothing on stdout is already among Outcomes)
ProbeOutcomes ==
    Outcomes \cup
    {[kind |-> "exit", code |-> "0",
      stdout |-> <<"Database (mydb)", "\n", "mydb", "\n">>, stderr |-> <<>>]}

NoOutcome == [kind |-> "none", code |-> "", stdout |-> <<>>, stderr |-> <<>>]

NoCall(files) ==
    [op |-> "none", database |-> "", file |-> "", oc |-> NoOutcome,
     out |-> Returned(TRUE, <<>>, <<>>, files)]

Call(op, database, file, oc, out) ==
    [op |-> op, database |-> database, file |-> file, oc |-> oc, out |-> out]

\* db_path in a directory that exists, readable when it exists
Accessible == [parent |-> TRUE, readable |-> TRUE]

HandlerIdle ==
    /\ handler = [cls |-> "none"]
    /\ onPath = {}
    /\ environ = [k \in {"PATH"} |-> "/usr/bin"]
    /\ fs = [p \in Paths |-> NoFile]
    /\ access = Accessible
    /\ fsPre = fs
    /\ last = NoCall(fs)

Environs(cls) ==
    IF cls = "MySQLHandler"
    THEN {[k \in {"PATH"} |-> "/usr/bin"],
          [k \in {"PATH", "MYSQL_PWD"} |-> IF k = "PATH" THEN "/usr/bin" ELSE "inherited"]}
    ELSE {[k \in {"PATH"} |-> "/usr/bin"]}

InitialFiles(cls) ==
    IF cls = "SQLiteHandler"
    THEN {f \in [Paths -> Contents \cup {NoFile}] : f["snapshot.db"] = NoFile}
    ELSE {f \in [Paths -> {"dump", NoFile}] :
             \A p \in Paths \ {"backup.db"} : f[p] = NoFile}

HandlerConfigs(tag) ==
    IF tag = "sqlite"
    THEN {c \in Configs : DOMAIN c \subseteq {"db_path"}}
    ELSE {c \in Configs : DOMAIN c \subseteq {"username", "password", "database"}}

HandlerInit ==
    /\ \E tag \in {"mysql", "mongodb", "sqlite"} :
         \E c \in HandlerConfigs(tag) : handler = get_handler(tag, c).handler
    /\ onPath \in SUBSET ToolsOf(handler.cls)
    /\ environ \in Environs(handler.cls)
    /\ fs \in InitialFiles(handler.cls)
    /\ access = Accessible
    /\ fsPre = fs
    /\ last = NoCall(fs)
    /\ CodecIdle
    /\ FactoryIdle
    /\ CliIdle

\* One handler call: the outcome is recorded and its file system takes effect
Do(op, database, file, oc, out) ==
    /\ last' = Call(op, database, file, oc, out)
    /\ fsPre' = fs
    /\ fs' = out.fs
    /\ UNCHANGED <<handler, onPath, environ, access>>
    /\ UNCHANGED <<codecVars, factoryVars, cliVars>>

MySQLValidateTools ==
    /\ handler.cls = "MySQLHandler"
    /\ \E oc \in Outcomes :
         Do("validate_tools", "", "", oc,
            MySQL_validate_tools(handler, onPath, environ, fs, oc))

MySQLValidateConnection ==
    /\ handler.cls = "MySQLHandler"
    /\ \E oc \in Outcomes :
         Do("validate_connection", "", "", oc,
            MySQL_validate_connection(handler, onPath, environ, fs, oc))

MySQLBackup ==
    /\ handler.cls = "MySQLHandler"
    /\ \E database \in DbArgs, output_file \in FileArgs, oc \in Outcomes :
         Do("backup", database, output_file, oc,
            MySQL_backup(handler, database, output_file, onPath, environ, fs, oc))

MySQLRestore ==
    /\ handler.cls = "MySQLHandler"
    /\ \E database \in DbArgs, input_file \in FileArgs, oc \in Outcomes :
         Do("restore", database, input_file, oc,
            MySQL_restore(handler, database, input_file, onPath, environ, fs, oc))

MySQLDatabaseExists ==
    /\ handler.cls = "MySQLHandler"
    /\ \E database \in DbArgs, oc \in ProbeOutcomes :
         Do("_database_exists", database, "", oc,
            MySQL_database_exists(handler, database, onPath, environ, fs, oc))

MongoValidateTools ==
    /\ handler.cls = "MongoDBHandler"
    /\ \E oc \in Outcomes :
         Do("validate_tools", "", "", oc,
            MongoDB_validate_tools(handler, onPath, environ, fs, oc))

MongoValidateConnection ==
    /\ handler.cls = "MongoDBHandler"
    /\ \E oc \in Outcomes :
         Do("validate_connection", "", "", oc,
            MongoDB_validate_connection(handler, onPath, environ, fs, oc))

MongoBackup ==
    /\ handler.cls = "MongoDBHandler"
    /\ \E database \in DbArgs, output_file \in FileArgs, oc \in Outcomes :
         Do("backup", database, output_file, oc,
            MongoDB_backup(handler, database, output_file, onPath, environ, fs, oc))

MongoRestore ==
    /\ handler.cls = "MongoDBHandler"
    /\ \E database \in DbArgs, input_file \in FileArgs, oc \in Outcomes :
         Do("restore", database, input_file, oc,
            MongoDB_restore(handler, database, input_file, onPath, environ, fs, oc))

SQLiteValidateTools ==
    /\ handler.cls = "SQLiteHandler"
    /\ Do("validate_tools", "", "", NoOutcome, SQLite_validate_tools(handler, fs))

SQLiteBackup ==
    /\ handler.cls = "SQLiteHandler"
    /\ \E database \in DbArgs, output_file \in FileArgs :
         Do("backup", database, output_file, NoOutcome,
            SQLite_backup(handler, database, output_file, fs))

SQLiteRestore ==
    /\ handler.cls = "SQLiteHandler"
    /\ \E database \in DbArgs, input_file \in FileArgs :
         Do("restore", database, input_file, NoOutcome,
            SQLite_restore(handler, database, input_file, fs))

SQLiteValidateConnection ==
    /\ handler.cls = "SQLiteHandler"
    /\ Do("validate_connection", "", "", NoOutcome,
          SQLite_validate_connection(handler, fs, access))

HandlerNext ==
    \/ MySQLValidateTools \/ MySQLValidateConnection \/ MySQLBackup \/ MySQLRestore
    \/ MySQLDatabaseExists
    \/ MongoValidateTools \/ MongoValidateConnection \/ MongoBackup \/ MongoRestore
    \/ SQLiteValidateTools \/ SQLiteValidateConnection
    \/ SQLiteBackup \/ SQLiteRestore

SpecHandlers == HandlerInit /\ [][HandlerNext]_vars

-----------------------------------------------------------------------------
(* Validation on its own, in environments where db_path may be out of      *)
(* reach: its directory missing, or the file present and unreadable        *)

Accesses(cls, files, db_path) ==
    IF cls = "SQLiteHandler"
    THEN {a \in [parent : BOOLEAN, readable : BOOLEAN] :
             ~a.parent => files[db_path] = NoFile}
    ELSE {Accessible}

ValidateInit ==
    /\ \E tag \in {"mysql", "mongodb", "sqlite"} :
         \E c \in HandlerConfigs(tag) : handler = get_handler(tag, c).handler
    /\ onPath \in SUBSET ToolsOf(handler.cls)
    /\ environ \in Environs(handler.cls)
    /\ fs \in InitialFiles(handler.cls)
    /\ access \in Accesses(handler.cls, fs,
                           IF handler.cls = "SQLiteHandler" THEN handler.db_path
                           ELSE "data.db")
    /\ fsPre = fs
    /\ last = NoCall(fs)
    /\ CodecIdle
    /\ FactoryIdle
    /\ CliIdle

ValidateNext ==
    \/ MySQLValidateTools \/ MySQLValidateConnection
    \/ MongoValidateTools \/ MongoValidateConnection
    \/ SQLiteValidateTools \/ SQLiteValidateConnection

SpecValidate == ValidateInit /\ [][ValidateNext]_vars

-----------------------------------------------------------------------------
(* The factory called on its own                                           *)

FactoryInit ==
    /\ fTag \in CallerTags
    /\ fConfig \in Configs
    /\ fResult = [kind |-> "pending"]
    /\ CodecIdle
    /\ HandlerIdle
    /\ CliIdle

GetHandler ==
    /\ fResult.kind = "pending"
    /\ fResult' = get_handler(fTag, fConfig)
    /\ UNCHANGED <<fTag, fConfig>>
    /\ UNCHANGED <<codecVars, handlerVars, cliVars>>

SpecFactory == FactoryInit /\ [][GetHandler]_vars

-----------------------------------------------------------------------------
(* The codec's inputs                                                      *)

MaxNameLen == 2

NameAlphabet == {"a", "1", "_"}

S_a_sql    == <<"a",".","s","q","l">>
S_stamp_in_name ==
    <<"a","_","f","u","l","l","_","2","0","2","6","-","0","1","-","0","7",
      "_","2","3","-","4","5","_","b">>

\* Logical database names: every short word over NameAlphabet, the empty name,
\* and names chosen for the codec's edge cases.
Names ==
    UNION {[1..k -> NameAlphabet] : k \in 1..MaxNameLen}
      \cup {<<>>, S_sqlite, S_mydb, S_my_production_db, S_a_sql, S_stamp_in_name}

\* Values of datetime.now(), to the second
Times ==
    {[Y |-> 2026, M |-> 1,  D |-> 7,  h |-> 23, m |-> 45, s |-> 12],
     [Y |-> 2025, M |-> 12, D |-> 31, h |-> 0,  m |-> 5,  s |-> 9]}

DbPaths == {S_data_db, S_test_db}
CfgDatabases == {<<>>, S_mydb}

\* File names a user may pass as --file for the current inputs: the codec's form
\* with each part present, altered or missing, and an unrelated name.
FilePrefixes == {S_pgprefix, S_mysql \o <<"_">>, <<>>}
FileMarkers  == {S_full, <<"_">>}
FileExts     == {<<>>, S_sql, S_sql \o S_tar, S_sql \o S_targz, S_db, <<"\n">>}
FileStamps(t) == {Strftime(t), StrftimeMinutes(t), <<>>}

UserFiles(name, t) ==
    {pre \o name \o mk \o ts \o ext :
        pre \in FilePrefixes, mk \in FileMarkers, ts \in FileStamps(t),
        ext \in FileExts}
      \cup {S_random_file \o S_sql}

-----------------------------------------------------------------------------
(* Codec operations                                                        *)

CodecInit ==
    /\ dbType \in DbTags
    /\ dbName \in Names
    /\ now \in Times
    /\ cfgDbPath \in DbPaths
    /\ cfgDatabase \in CfgDatabases
    /\ filename = <<>>
    /\ origin = "none"
    /\ decoded = None
    /\ step = "input"
    /\ FactoryIdle
    /\ HandlerIdle
    /\ CliIdle

\* handler.get_default_backup_name(db_name) on the handler the tag selects
Encode ==
    /\ step = "input"
    /\ filename' = get_default_backup_name(dbType, dbName, now, cfgDbPath, cfgDatabase)
    /\ origin' = "encoded"
    /\ step' = "named"
    /\ UNCHANGED <<dbType, dbName, now, cfgDbPath, cfgDatabase, decoded>>
    /\ UNCHANGED <<factoryVars, handlerVars, cliVars>>

\* restore --file <path>: Path(file).name is whatever the user passed
GiveFile ==
    /\ step = "input"
    /\ filename' \in UserFiles(dbName, now)
    /\ origin' = "user"
    /\ step' = "named"
    /\ UNCHANGED <<dbType, dbName, now, cfgDbPath, cfgDatabase, decoded>>
    /\ UNCHANGED <<factoryVars, handlerVars, cliVars>>

\* db_name = extract_db_name_from_filename(backup_path.name)
Decode ==
    /\ step = "named"
    /\ decoded' = extract_db_name_from_filename(filename)
    /\ step' = "decoded"
    /\ UNCHANGED <<dbType, dbName, now, cfgDbPath, cfgDatabase, filename, origin>>
    /\ UNCHANGED <<factoryVars, handlerVars, cliVars>>

CodecNext == Encode \/ GiveFile \/ Decode

SpecCodec == CodecInit /\ [][CodecNext]_vars

-----------------------------------------------------------------------------
(* The command line (cli/main.py): the backup and restore commands         *)
(*                                                                         *)
(* ConfigLoader, setup_logger, PostgresHandler and perform_backup /        *)
(* perform_restore are the command's collaborators; a run is determined by *)
(* the options and by which collaborator, if any, raises first.            *)

S_slash    == <<"/">>
S_backups_dir == <<"b","a","c","k","u","p","s","/">>

\* class DatabaseType(str, Enum): the values --db accepts
DatabaseType == {"postgres"}

\* The exception classes a collaborator may raise, each with its bases up to
\* Exception; typer.Exit and typer.Abort are subclasses of RuntimeError
Bases(exc) ==
    CASE exc = "FileNotFoundError"  -> {"FileNotFoundError", "OSError", "Exception"}
      [] exc = "PermissionError"    -> {"PermissionError", "OSError", "Exception"}
      [] exc = "ValueError"         -> {"ValueError", "Exception"}
      [] exc = "RuntimeError"       -> {"RuntimeError", "Exception"}
      [] exc = "Exit"               -> {"Exit", "RuntimeError", "Exception"}
      [] exc = "Abort"              -> {"Abort", "RuntimeError", "Exception"}
      [] exc = "KeyError"           -> {"KeyError", "LookupError", "Exception"}

IsInstance(exc, cls) == cls \in Bases(exc)

\* The commands' except clauses with one except clause only: whatever is raised
\* is reported as unexpected, and a ValueError is let through to the caller
cli_except_lets_through(cmd, exc, text) ==
    IF IsInstance(exc, "ValueError")
    THEN [exit |-> 0, stderr |-> <<>>]
    ELSE [exit |-> 1, stderr |-> <<<<"Error:", " Unexpected error: ", text>>>>]

\* The commands' except clauses, in order: the message on the error stream and
\* the code of the typer.Exit raised
cli_except(cmd, exc, text) ==
    LET what == IF cmd = "backup" THEN " Backup failed: " ELSE " Restore failed: "
    IN  IF IsInstance(exc, "FileNotFoundError")
        THEN [exit |-> 1, stderr |-> <<<<"Error:", " File not found: ", text>>>>]
        ELSE IF IsInstance(exc, "ValueError")
        THEN [exit |-> 1, stderr |-> <<<<"Error:", " Configuration error: ", text>>>>]
        ELSE IF IsInstance(exc, "RuntimeError")
        THEN [exit |-> 1, stderr |-> <<<<"Error:", what, text>>>>]
        ELSE [exit |-> 1, stderr |-> <<<<"Error:", " Unexpected error: ", text>>>>]

\* The result of a run
Run(exit, stdout, stderr, calls) ==
    [kind |-> "done", exit |-> exit, stdout |-> stdout, stderr |-> stderr,
     calls |-> calls]

\* A run whose body raised exc after writing stdout and stderr
RunRaised(cmd, exc, text, stdout, stderr, calls) ==
    LET h == cli_except(cmd, exc, text)
    IN  Run(h.exit, stdout, stderr \o h.stderr, calls)

\* typer's rejection of an option value that is not a member of the Enum
UsageError(db) ==
    Run(2, <<>>, <<<<"Invalid value for '--db': ", db>>>>, <<>>)

\* A call of perform_backup / perform_restore
PerformCall(fn, h, db_type, db_name, file, flag) ==
    [fn |-> fn, handler |-> h, db_type |-> db_type, db_name |-> db_name,
     file |-> file, flag |-> flag]

\* config.get_postgres_config()
PostgresConfig == [k \in {"host", "username", "password", "database"} |-> ConfigValue(k)]

\* The steps of a command before its operation: configuration, logger, handler
Preamble == {"config", "logger", "handler"}

\* @app.command() backup
cli_backup(argv, world) ==
    IF argv.db \notin DatabaseType THEN UsageError(argv.db)
    ELSE IF world.fails \in Preamble
    THEN RunRaised("backup", world.exc, world.text, <<>>, <<>>, <<>>)
    ELSE IF argv.db # "postgres"
    THEN RunRaised("backup", "Exit", "", <<>>,
                   <<<<"Error:", " Unsupported database type: ", argv.db>>>>, <<>>)
    ELSE LET call == PerformCall("perform_backup", PostgresHandler(PostgresConfig),
                                 argv.db, argv.db_name.val, <<>>, argv.compress)
         IN  IF world.fails = "perform"
             THEN RunRaised("backup", world.exc, world.text, <<>>, <<>>, <<call>>)
             ELSE Run(0, <<<<"\nBackup completed successfully!">>,
                            <<"Backup file: ", "backup_file">>,
                            <<"Logs: ", "clidup.log">>>>,
                      <<>>, <<call>>)

\* Path(file).name
RECURSIVE DropTrailingSlashes(_)
DropTrailingSlashes(path) ==
    IF Len(path) > 1 /\ path[Len(path)] = "/"
    THEN DropTrailingSlashes(SubSeq(path, 1, Len(path) - 1)) ELSE path

PathName(path) ==
    LET q == DropTrailingSlashes(path)
        i == IF \E k \in 1..Len(q) : q[k] = "/"
             THEN CHOOSE k \in 1..Len(q) :
                    q[k] = "/" /\ \A j \in (k + 1)..Len(q) : q[j] # "/"
             ELSE 0
    IN  Slice(q, i + 1, Len(q))

\* restore that decodes the file name whatever --db-name says
cli_restore_always_decodes(argv, world) ==
    LET d == extract_db_name_from_filename(PathName(argv.file))
    IN  IF d.some /\ world.fails = "none"
        THEN Run(0, <<>>, <<>>,
                 <<PerformCall("perform_restore", PostgresHandler(PostgresConfig),
                               argv.db, d.val, argv.file, argv.yes)>>)
        ELSE Run(1, <<>>, <<<<"Error:", " Restore failed: ", "">>>>, <<>>)

\* @app.command() restore
cli_restore(argv, world) ==
    IF argv.db \notin DatabaseType THEN UsageError(argv.db)
    ELSE IF world.fails \in Preamble
    THEN RunRaised("restore", world.exc, world.text, <<>>, <<>>, <<>>)
    ELSE IF argv.db # "postgres"
    THEN RunRaised("restore", "Exit", "", <<>>,
                   <<<<"Unsupported database type: ", argv.db>>>>, <<>>)
    ELSE LET d       == IF argv.db_name.some THEN argv.db_name
                        ELSE extract_db_name_from_filename(PathName(argv.file))
             info    == IF argv.db_name.some THEN <<>>
                        ELSE <<<<"Info: Detected database name from filename: ", d.val>>>>
             call    == PerformCall("perform_restore", PostgresHandler(PostgresConfig),
                                    "", d.val, argv.file, argv.yes)
         IN  IF ~argv.db_name.some /\ (~d.some \/ d.val = <<>>)
             THEN RunRaised("restore", "Exit", "", <<>>,
                            <<<<"Error:", " Could not detect database name from filename. ",
                                "Please specify --db-name explicitly.\n",
                                "Expected format: ",
                                "postgres_<db_name>_full_<YYYY-MM-DD>_<HH-MM-SS>.sql">>>>,
                            <<>>)
             ELSE IF world.fails = "perform"
             THEN RunRaised("restore", world.exc, world.text, info, <<>>, <<call>>)
             ELSE Run(0, info \o <<<<"Logs: ", "clidup.log">>>>, <<>>, <<call>>)

\* What may be given on the command line
CliDbNames == {None, Some(<<>>), Some(S_mydb)}

CliFiles ==
    LET ts == Strftime([Y |-> 2026, M |-> 1, D |-> 7, h |-> 23, m |-> 45, s |-> 12])
        good == S_pgprefix \o S_my_production_db \o S_full \o ts \o S_sql
    IN  {good,
         S_backups_dir \o good,
         S_backups_dir \o good \o S_targz,
         good \o S_slash \o S_random_file \o S_sql,
         S_backups_dir \o S_mysql \o <<"_">> \o S_mydb \o S_full \o ts \o S_sql,
         S_random_file \o S_sql}

CliArgvs ==
    {[cmd |-> "backup", db |-> db, db_name |-> n, file |-> <<>>,
      compress |-> c, yes |-> FALSE] :
        db \in CallerTags, n \in CliDbNames \ {None}, c \in BOOLEAN}
    \cup
    {[cmd |-> "restore", db |-> db, db_name |-> n, file |-> f,
      compress |-> FALSE, yes |-> y] :
        db \in CallerTags, n \in CliDbNames, f \in CliFiles, y \in BOOLEAN}

\* Which collaborator raises first, if any, and what it raises
CliSteps == Preamble \cup {"perform"}
CliExceptions ==
    {"FileNotFoundError", "PermissionError", "ValueError", "RuntimeError",
     "Abort", "KeyError"}

CliWorlds ==
    {[fails |-> "none", exc |-> "", text |-> ""]}
      \cup {[fails |-> st, exc |-> e, text |-> "boom"] :
                st \in CliSteps, e \in CliExceptions}

CliInit ==
    /\ cliArgv \in CliArgvs
    /\ cliWorld \in CliWorlds
    /\ cliRun = NoRun
    /\ CodecIdle
    /\ FactoryIdle
    /\ HandlerIdle

BackupCommand ==
    /\ cliRun.kind = "pending"
    /\ cliArgv.cmd = "backup"
    /\ cliRun' = cli_backup(cliArgv, cliWorld)
    /\ UNCHANGED <<cliArgv, cliWorld>>
    /\ UNCHANGED <<codecVars, factoryVars, handlerVars>>

RestoreCommand ==
    /\ cliRun.kind = "pending"
    /\ cliArgv.cmd = "restore"
    /\ cliRun' = cli_restore(cliArgv, cliWorld)
    /\ UNCHANGED <<cliArgv, cliWorld>>
    /\ UNCHANGED <<codecVars, factoryVars, handlerVars>>

CliNext == BackupCommand \/ RestoreCommand

SpecCli == CliInit /\ [][CliNext]_vars

-----------------------------------------------------------------------------
(* Vocabulary of the codec claims                                          *)

TagStr(tag) ==
    CASE tag = "postgres" -> S_postgres
      [] tag = "mysql"    -> S_mysql
      [] tag = "sqlite"   -> S_sqlite
      [] tag = "mongodb"  -> S_mongodb

ExtOf(tag) ==
    CASE tag = "postgres" -> S_sql
      [] tag = "mysql"    -> S_sql
      [] tag = "sqlite"   -> S_db
      [] tag = "mongodb"  -> S_archive

\* The artifact name the format <db_type>_<db_name>_full_<date>_<time>.<ext> gives
FormatName(tag, name, t) ==
    TagStr(tag) \o <<"_">> \o name \o S_full \o Strftime(t) \o ExtOf(tag)

\* name contains a substring of the timestamp-suffix shape
HasStampPattern(name) == \E i \in 1..Len(name) : StampAt(name, i)

WordChars ==
    {"a","b","c","d","e","f","g","h","i","j","k","l","m","n","o","p","q","r","s",
     "t","u","v","w","x","y","z","_"} \cup Digits

\* a non-empty name of letters, digits and underscores
IsWord(name) == Len(name) >= 1 /\ \A k \in 1..Len(name) : name[k] \in WordChars

\* s is exactly <db_type>_<db_name>_full_<4d>-<2d>-<2d>_<2d>-<2d>[-<2d>], with a
\* non-empty db_type and a non-empty db_name
IsOfForm(s) ==
    \E j \in 1..Len(s) :
        /\ StampAt(s, j)
        /\ \/ Len(s) = j + 21
           \/ Len(s) = j + 24 /\ LitAt(s, j + 22, <<"-">>) /\ IsDigitsAt(s, j + 23, 2)
        /\ \E p \in 2..(j - 2) : s[p] = "_"

-----------------------------------------------------------------------------
(* C1: for every supported db type, every db_name without a timestamp-shaped *)
(* substring and every timestamp, decoding the file name the type's handler  *)
(* generates for db_name returns exactly db_name.                            *)
C1_RoundTrip ==
    (step = "decoded" /\ origin = "encoded" /\ dbName # <<>>
       /\ ~HasStampPattern(dbName))
        => decoded = Some(dbName)

(* C2: for every tag in the factory's table get_handler returns a handler of *)
(* exactly the matching variant for any config mapping; for every other tag  *)
(* it returns no handler and raises ValueError, whose message contains the   *)
(* offending tag and the list of all supported tags.                         *)
C2_FactoryTotal ==
    fResult.kind # "pending" =>
        /\ fTag = "postgres" => (fResult.kind = "handler"
                                 /\ fResult.handler.cls = "PostgresHandler")
        /\ fTag = "mysql"    => (fResult.kind = "handler"
                                 /\ fResult.handler.cls = "MySQLHandler")
        /\ fTag = "sqlite"   => (fResult.kind = "handler"
                                 /\ fResult.handler.cls = "SQLiteHandler")
        /\ fTag = "mongodb"  => (fResult.kind = "handler"
                                 /\ fResult.handler.cls = "MongoDBHandler")
        /\ fResult.kind = "handler" => fResult.handler.config = fConfig
        /\ fTag \notin {"postgres", "mysql", "sqlite", "mongodb"} =>
              /\ fResult.kind = "raise"
              /\ fResult.exc = "ValueError"
              /\ \E i \in 1..Len(fResult.msg) : fResult.msg[i] = fTag
              /\ \A t \in {"postgres", "mysql", "sqlite", "mongodb"} :
                    \E i \in 1..Len(fResult.msg) : fResult.msg[i] = t

\* get_handler('mongodb', cfg) has returned a MongoDB handler
C2_WitnessHandler ==
    /\ fTag = "mongodb"
    /\ fResult.kind = "handler"
    /\ fResult.handler.cls = "MongoDBHandler"
    /\ "password" \in DOMAIN fConfig

-----------------------------------------------------------------------------
(* Vocabulary of the handler claims                                        *)

\* The secret a handler was configured with ("" when it has none)
PasswordOf(h) == IF "password" \in DOMAIN h THEN h.password ELSE ""

\* Every text a call made visible: the raised error's message and its log lines
TextsOf(out) == {out.msg} \cup {out.logs[i].msg : i \in 1..Len(out.logs)}

\* The executables each handler's validate_tools requires
RequiredTools(cls) ==
    CASE cls = "MySQLHandler"   -> {"mysqldump", "mysql"}
      [] cls = "MongoDBHandler" -> {"mongodump", "mongorestore"}
      [] OTHER -> {}

(* C3: for every handler and every failure outcome of validate_connection,   *)
(* backup or restore, the raised error's message and every logged message    *)
(* do not contain the configured password.                                   *)
C3_NoSecretInErrors ==
    (/\ last.op \in {"validate_connection", "backup", "restore"}
     /\ last.out.kind = "raise"
     /\ PasswordOf(handler) # "")
        => \A text \in TextsOf(last.out) : ~InText(PasswordOf(handler), text)

(* C4: for the MySQL and MongoDB handlers, when the tool run by backup or    *)
(* restore does not finish within the timeout, the call ends by raising      *)
(* RuntimeError, not a raw unclassified exception.                           *)
C4_TimeoutIsRuntimeError ==
    (/\ handler.cls \in {"MySQLHandler", "MongoDBHandler"}
     /\ last.op \in {"backup", "restore"}
     /\ last.out.started # <<>>
     /\ last.oc.kind = "timeout")
        => (last.out.kind = "raise" /\ last.out.exc = "RuntimeError")

(* C5: for the MySQL and MongoDB handlers, if a required executable is not   *)
(* resolvable, validate_tools fails with the tool-not-found error before any *)
(* connection probe or other subprocess is started, and creates no file.     *)
C5_MissingToolFirst ==
    (/\ handler.cls \in {"MySQLHandler", "MongoDBHandler"}
     /\ last.op = "validate_tools"
     /\ ~(RequiredTools(handler.cls) \subseteq onPath))
        => /\ last.out.kind = "raise"
           /\ last.out.exc = "RuntimeError"
           /\ \E t \in RequiredTools(handler.cls) \ onPath : last.out.msg[1] = t
           /\ last.out.started = <<>>
           /\ fs = fsPre

\* validate_tools has failed on a MySQL handler whose mysql client is
\* resolvable and whose mysqldump is not
C5_Witness ==
    /\ handler.cls = "MySQLHandler"
    /\ last.op = "validate_tools"
    /\ onPath = {"mysql"}
    /\ last.out.kind = "raise"
    /\ last.out.started = <<>>

C8_NameFormat ==
    (step = "named" /\ origin = "encoded" /\ dbName # <<>>)
        => filename = FormatName(dbType, dbName, now)

(* C9: for a db_name of letters, digits and underscores, decoding            *)
(* postgres_<db_name>_full_<timestamp> followed by .sql, .sql.tar or         *)
(* .sql.tar.gz returns the whole db_name, never a prefix cut at an earlier   *)
(* underscore.                                                               *)
C9_KeepsUnderscores ==
    \A ts \in {Strftime(now), StrftimeMinutes(now)} :
      \A ext \in {S_sql, S_sql \o S_tar, S_sql \o S_targz} :
        (/\ step = "decoded"
         /\ IsWord(dbName)
         /\ filename = S_pgprefix \o dbName \o S_full \o ts \o ext)
            => decoded = Some(dbName)

\* decode("postgres_my_production_db_full_2026-01-07_23-45-12.sql.tar") has run
C9_Witness ==
    /\ step = "decoded"
    /\ dbName = S_my_production_db
    /\ filename = S_pgprefix \o S_my_production_db \o S_full
                    \o <<"2","0","2","6","-","0","1","-","0","7","_",
                         "2","3","-","4","5","-","1","2">> \o S_sql \o S_tar
    /\ decoded = Some(S_my_production_db)

(* C10: extract_db_name_from_filename returns None for every file name that, *)
(* after extension stripping, is not of the form                             *)
(* <db_type>_<db_name>_full_<4d>-<2d>-<2d>_<2d>-<2d>[-<2d>].                 *)
C10_UnmatchedIsNone ==
    (step = "decoded" /\ ~IsOfForm(StripExtensions(filename)))
        => decoded = None

-----------------------------------------------------------------------------
\* The child processes the last call started
StartedProcs == {last.out.started[i] : i \in 1..Len(last.out.started)}

(* C11 as stated: in every subprocess the MySQL handler starts the password  *)
(* does not occur in the argument list, and MYSQL_PWD is set in the child's  *)
(* environment exactly when the configured password is non-empty.            *)
C11_EnvExactlyWhenConfigured ==
    handler.cls = "MySQLHandler" =>
        \A p \in StartedProcs :
            /\ PasswordOf(handler) # "" =>
                   ~InText(PasswordOf(handler), Flatten(p.argv))
            /\ ("MYSQL_PWD" \in DOMAIN p.env) <=> (PasswordOf(handler) # "")

(* C11 amended: in every subprocess the MySQL handler starts the password    *)
(* does not occur in the argument list; when the password is non-empty the   *)
(* child's MYSQL_PWD is the password, and when it is empty the child gets    *)
(* the parent's environment unchanged (MYSQL_PWD only if it was inherited).  *)
C11_PasswordViaEnv ==
    handler.cls = "MySQLHandler" =>
        \A p \in StartedProcs :
            /\ PasswordOf(handler) # "" =>
                   /\ ~InText(PasswordOf(handler), Flatten(p.argv))
                   /\ "MYSQL_PWD" \in DOMAIN p.env
                   /\ p.env["MYSQL_PWD"] = PasswordOf(handler)
            /\ PasswordOf(handler) = "" => p.env = environ
            /\ \A k \in DOMAIN environ \ {"MYSQL_PWD"} :
                   k \in DOMAIN p.env /\ p.env[k] = environ[k]

\* restore has started the mysql client for a handler configured with a password
C11_Witness ==
    /\ handler.cls = "MySQLHandler"
    /\ PasswordOf(handler) = "s3cret"
    /\ last.op = "restore"
    /\ Len(last.out.started) = 1
    /\ last.out.started[1].env["MYSQL_PWD"] = "s3cret"

-----------------------------------------------------------------------------
(* Vocabulary of the command-line claims                                   *)

\* The command's body ran: typer accepted the options
BodyRan == cliRun.kind = "done" /\ cliArgv.db \in DatabaseType

\* The names handed to perform_backup / perform_restore, in call order
NamesPassed == [i \in 1..Len(cliRun.calls) |-> cliRun.calls[i].db_name]

\* Some message on the stream has tok as its k-th fragment
Printed(stream, k, tok) ==
    \E i \in 1..Len(stream) : Len(stream[i]) >= k /\ stream[i][k] = tok

\* Some message on the error stream starts with 'Error:'
ErrorPrinted == \E i \in 1..Len(cliRun.stderr) : cliRun.stderr[i][1] = "Error:"

SuccessPrinted ==
    \/ Printed(cliRun.stdout, 1, "\nBackup completed successfully!")
    \/ Printed(cliRun.stdout, 1, "Logs: ")

(* C12: in the restore command, once configuration, logger and handler are   *)
(* set up: a given --db-name is passed to perform_restore unchanged and the  *)
(* file name is not decoded; an omitted one is replaced by the decode of     *)
(* --file's base name; when that decode yields none the guidance message     *)
(* with the expected format is printed, the exit code is 1 and               *)
(* perform_restore is never called.                                          *)
C12_RestoreNameResolution ==
    (BodyRan /\ cliArgv.cmd = "restore" /\ cliWorld.fails \notin Preamble) =>
        LET d == extract_db_name_from_filename(PathName(cliArgv.file))
        IN  /\ cliArgv.db_name.some =>
                  /\ NamesPassed = <<cliArgv.db_name.val>>
                  /\ cliRun.calls[1].file = cliArgv.file
                  /\ ~Printed(cliRun.stdout, 1, "Info: Detected database name from filename: ")
            /\ (~cliArgv.db_name.some /\ d.some) =>
                  /\ NamesPassed = <<d.val>>
                  /\ cliRun.calls[1].file = cliArgv.file
            /\ (~cliArgv.db_name.some /\ ~d.some) =>
                  /\ cliRun.calls = <<>>
                  /\ cliRun.exit = 1
                  /\ Printed(cliRun.stderr, 5,
                             "postgres_<db_name>_full_<YYYY-MM-DD>_<HH-MM-SS>.sql")

\* restore --file backups/postgres_my_production_db_full_<ts>.sql.tar.gz without
\* --db-name has called perform_restore with the decoded name
C12_Witness ==
    /\ cliRun.kind = "done"
    /\ cliArgv.cmd = "restore"
    /\ ~cliArgv.db_name.some
    /\ LitAt(cliArgv.file, 1, S_backups_dir)
    /\ NamesPassed = <<S_my_production_db>>

(* C13: the backup and restore commands exit with code 0 only when every     *)
(* step completed without raising; when a step raises FileNotFoundError,     *)
(* ValueError, RuntimeError or any other exception the command prints an     *)
(* 'Error:'-prefixed message on the error stream, exits with code 1 and      *)
(* does not print the success message.                                       *)
C13_ExitStatus ==
    BodyRan =>
        /\ cliRun.exit = 0 => cliWorld.fails = "none"
        /\ cliRun.exit \in {0, 1}
        /\ cliWorld.fails # "none" =>
              /\ cliRun.exit = 1
              /\ ErrorPrinted
              /\ ~SuccessPrinted

\* a backup whose perform_backup raised an exception of none of the named
\* classes has exited with code 1
C13_Witness ==
    /\ BodyRan
    /\ cliArgv.cmd = "backup"
    /\ cliWorld.fails = "perform"
    /\ cliWorld.exc = "KeyError"
    /\ Len(cliRun.calls) = 1
    /\ cliRun.exit = 1
    /\ Printed(cliRun.stderr, 2, " Unexpected error: ")

(* C14: for every tag of the factory's table given as --db, a command whose  *)
(* steps all succeed runs its operation on a handler of the variant the      *)
(* factory maps the tag to.                                                  *)
C14_DispatchThroughFactory ==
    (/\ cliRun.kind = "done"
     /\ cliArgv.db \in DOMAIN DatabaseFactory_handlers
     /\ cliWorld.fails = "none"
     /\ cliArgv.db_name = Some(S_mydb))
        => \E i \in 1..Len(cliRun.calls) :
              cliRun.calls[i].handler.cls = DatabaseFactory_handlers[cliArgv.db]

-----------------------------------------------------------------------------
\* proc is the SHOW DATABASES probe of _database_exists
IsExistenceProbe(proc) ==
    \E k \in 1..Len(proc.argv) : proc.argv[k][1] = "SHOW DATABASES LIKE '"

(* C15: MySQLHandler.restore runs the existence check for the target         *)
(* database before it starts the mysql client on the backup file; the check  *)
(* is best-effort: when its probe exits non-zero or times out it returns     *)
(* True and raises nothing.                                                  *)
C15_ExistenceCheckBeforeRestore ==
    handler.cls = "MySQLHandler" =>
        /\ (last.op = "restore" /\ last.database = "mydb") =>
              \A i \in 1..Len(last.out.started) :
                  last.out.started[i].stdin = last.file =>
                      \E j \in 1..(i - 1) : IsExistenceProbe(last.out.started[j])
        /\ (/\ last.op = "_database_exists"
            /\ last.out.started # <<>>
            /\ (last.oc.kind = "timeout" \/ last.oc.code # "0"))
              => (last.out.kind = "return" /\ last.out.value = TRUE)

-----------------------------------------------------------------------------
\* The message names a CREATE DATABASE step for the database
HintsCreate(msg, database) ==
    \E i \in 1..(Len(msg) - 1) : msg[i] = "CREATE DATABASE " /\ msg[i + 1] = database

(* C16: when the mysql client run by restore exits non-zero and its stderr   *)
(* reports 'Unknown database', the raised error carries the stderr text and  *)
(* a hint naming CREATE DATABASE for the target; for any other non-zero exit *)
(* the error carries the stderr text and no such hint.                       *)
C16_MissingDatabaseHint ==
    (/\ handler.cls = "MySQLHandler"
     /\ last.op = "restore"
     /\ last.out.started # <<>>
     /\ last.oc.kind = "exit"
     /\ last.oc.code # "0")
        => /\ last.out.kind = "raise"
           /\ last.out.exc = "RuntimeError"
           /\ \A k \in 1..Len(last.oc.stderr) : InText(last.oc.stderr[k], last.out.msg)
           /\ InText("Unknown database", last.oc.stderr)
                  => HintsCreate(last.out.msg, last.database)
           /\ ~InText("Unknown database", last.oc.stderr)
                  => ~InText("CREATE DATABASE ", last.out.msg)

-----------------------------------------------------------------------------
(* C17: MongoDBHandler.validate_connection succeeds without starting any     *)
(* subprocess when mongosh is not resolvable; when it is resolvable it runs  *)
(* exactly one mongosh probe with the probe timeout and succeeds iff the     *)
(* probe exits zero in time, otherwise it fails with the connection error.   *)
C17_OptionalMongoProbe ==
    (handler.cls = "MongoDBHandler" /\ last.op = "validate_connection") =>
        /\ "mongosh" \notin onPath =>
              /\ last.out.kind = "return"
              /\ last.out.value = TRUE
              /\ last.out.started = <<>>
        /\ "mongosh" \in onPath =>
              /\ Len(last.out.started) = 1
              /\ last.out.started[1].argv[1] = Arg("mongosh")
              /\ last.out.started[1].timeout = "10"
              /\ (last.out.kind = "return" /\ last.out.value = TRUE)
                    <=> (last.oc.kind = "exit" /\ last.oc.code = "0")
              /\ last.out.kind = "raise" =>
                    /\ last.out.exc = "RuntimeError"
                    /\ last.out.msg[1] \in {"Connection timeout to MongoDB at ",
                                            "Cannot connect to MongoDB: "}

\* the mongosh probe has timed out and validate_connection has failed
C17_Witness ==
    /\ handler.cls = "MongoDBHandler"
    /\ last.op = "validate_connection"
    /\ "mongosh" \in onPath
    /\ last.oc.kind = "timeout"
    /\ Len(last.out.started) = 1
    /\ last.out.kind = "raise"
    /\ last.out.msg[1] = "Connection timeout to MongoDB at "

-----------------------------------------------------------------------------
\* What the handler's validate_connection does in the environment the last
\* call ran in
ValidateConnectionThen ==
    CASE handler.cls = "MySQLHandler" ->
           MySQL_validate_connection(handler, onPath, environ, fsPre, last.oc)
      [] handler.cls = "MongoDBHandler" ->
           MongoDB_validate_connection(handler, onPath, environ, fsPre, last.oc)
      [] handler.cls = "SQLiteHandler" ->
           SQLite_validate_connection(handler, fsPre, access)

(* C18 as stated: for every handler variant (MySQL, MongoDB, SQLite),        *)
(* whenever validate_connection would fail in the current environment,       *)
(* validate_tools also fails and does not return success.                    *)
C18_ToolsPropagateEverywhere ==
    (last.op = "validate_tools" /\ ValidateConnectionThen.kind = "raise")
        => last.out.kind = "raise"

(* C18 amended: for the MySQL and MongoDB handlers, whenever                 *)
(* validate_connection would fail in the current environment validate_tools  *)
(* also fails; SQLite's validate_tools always returns success and starts     *)
(* nothing, also where validate_connection fails.                            *)
C18_ToolsPropagateConnection ==
    last.op = "validate_tools" =>
        /\ (/\ handler.cls \in {"MySQLHandler", "MongoDBHandler"}
            /\ ValidateConnectionThen.kind = "raise")
              => last.out.kind = "raise"
        /\ (/\ handler.cls \in {"MySQLHandler", "MongoDBHandler"}
            /\ RequiredTools(handler.cls) \subseteq onPath
            /\ ValidateConnectionThen.kind = "raise")
              => /\ last.out.exc = ValidateConnectionThen.exc
                 /\ last.out.msg = ValidateConnectionThen.msg
        /\ handler.cls = "SQLiteHandler" =>
              /\ last.out.kind = "return"
              /\ last.out.value = TRUE
              /\ last.out.started = <<>>

\* validate_tools of a MySQL handler with both tools resolvable has failed
\* because the server refused the connection
C18_Witness ==
    /\ handler.cls = "MySQLHandler"
    /\ last.op = "validate_tools"
    /\ onPath = {"mysqldump", "mysql"}
    /\ last.oc.kind = "exit"
    /\ last.oc.code = "1"
    /\ last.out.kind = "raise"
    /\ last.out.msg[1] = "Cannot connect to MySQL at "

-----------------------------------------------------------------------------
\* The known extensions, and the file name with its trailing known extensions
\* taken off, the longest first, and nothing else touched
KnownExtensions == {S_targz, S_tar, S_sql, S_archive, S_db}

RECURSIVE StripTrailing(_)
StripTrailing(f) ==
    IF \E e \in KnownExtensions : EndsWith(f, e)
    THEN LET e == CHOOSE x \in KnownExtensions :
                    /\ EndsWith(f, x)
                    /\ \A y \in KnownExtensions : EndsWith(f, y) => Len(y) <= Len(x)
         IN  StripTrailing(SubSeq(f, 1, Len(f) - Len(e)))
    ELSE f

(* C19: decode removes the known extensions (.tar.gz, .tar, .sql, .archive,  *)
(* .db) only as trailing suffixes, longest first, so the characters before   *)
(* the trailing extension, a db_name containing '.sql' included, reach the   *)
(* pattern match unchanged.  Stated for the names                            *)
(* postgres_<db_name>_full_<timestamp> with .sql, .sql.tar or .sql.tar.gz.   *)
C19_StripsOnlyTrailing ==
    (/\ step = "decoded"
     /\ origin = "user"
     /\ dbName # <<>>
     /\ \E ext \in {S_sql, S_sql \o S_tar, S_sql \o S_targz} :
            filename = S_pgprefix \o dbName \o S_full \o Strftime(now) \o ext)
        => /\ StripExtensions(filename) = StripTrailing(filename)
           /\ decoded = ReMatchGroup1(StripTrailing(filename))

-----------------------------------------------------------------------------
\* s is postgres_<N>_full_<timestamp> with the timestamp starting at j + 6 and
\* ending the string, and N = s[10 .. j-1] non-empty and without a newline
SplitsAt(s, j) ==
    /\ LitAt(s, 1, S_pgprefix)
    /\ j >= Len(S_pgprefix) + 2
    /\ StampAt(s, j)
    /\ \/ Len(s) = j + 21
       \/ Len(s) = j + 24 /\ LitAt(s, j + 22, <<"-">>) /\ IsDigitsAt(s, j + 23, 2)
    /\ \A k \in (Len(S_pgprefix) + 1)..(j - 1) : s[k] # "\n"

(* C20: for every stripped name of the form postgres_<N>_full_<timestamp>    *)
(* with a non-empty single-line N, extract_db_name_from_filename returns     *)
(* exactly N, also when N itself contains '_full_' and a timestamp-shaped    *)
(* substring; it never returns a proper prefix of N.                         *)
C20_SingleSplit ==
    step = "decoded" =>
        LET s == StripExtensions(filename)
        IN  \A j \in 1..Len(s) :
                SplitsAt(s, j) =>
                    decoded = Some(Slice(s, Len(S_pgprefix) + 1, j - 1))

\* decode("postgres_a_full_2026-01-07_23-45_b_full_<timestamp>.sql") has
\* returned the whole name "a_full_2026-01-07_23-45_b"
C20_Witness ==
    /\ step = "decoded"
    /\ dbName = S_stamp_in_name
    /\ filename = S_pgprefix \o S_stamp_in_name \o S_full \o Strftime(now) \o S_sql
    /\ decoded = Some(S_stamp_in_name)

-----------------------------------------------------------------------------
\* What restore would have done in the same environment for another target name
MongoRestoreFor(database) ==
    MongoDB_restore(handler, database, last.file, onPath, environ, fsPre, last.oc)

====
